---------------------------- MODULE Spec2Model ----------------------------
(***************************************************************************)
(* A model of the nclonline.com PDF scraper (src/main.go).                 *)
(*                                                                         *)
(* Strings are sequences of one-character strings, so that every string    *)
(* operation of the program (lower-casing, base name, the two regular      *)
(* expressions, trimming, substring removal, URL parsing) is computed      *)
(* character by character as the Go code and its standard library do.      *)
(***************************************************************************)
EXTENDS Integers, Sequences, FiniteSets, TLC

VARIABLES
    pc,                 \* position of the run (or of the function applied)
    rawURL,             \* urlToFilename: its argument
    safe,               \* urlToFilename: its result
    safe2,              \* urlToFilename applied to its own result
    htmlContent,        \* extractPDFUrls: its argument
    pdfURLs,            \* extractPDFUrls: its result
    slice,              \* removeDuplicatesFromSlice: its argument
    newReturnSlice,     \* removeDuplicatesFromSlice: its result
    newReturnSlice2,    \* removeDuplicatesFromSlice applied to its own result
    seedIdx,            \* main: index of the next seed URL in remoteURL
    localFile,          \* main: contents of nclonline.html
    extractedPDFURLs,   \* main: the extracted, then deduplicated, links
    urlIdx,             \* main: index of the next link of the download loop
    fs,                 \* the output directory: file path -> entry
    call,               \* the last downloadPDF call: arguments, response, result
    fetchCalls,         \* number of HTTP GET requests issued by downloadPDF
    writes,             \* file path -> number of times os.Create made the file
    log                 \* main: the seeds fetched so far, each with its error

vars == <<pc, rawURL, safe, safe2, htmlContent, pdfURLs, slice, newReturnSlice,
          newReturnSlice2, seedIdx, localFile, extractedPDFURLs, urlIdx, fs,
          call, fetchCalls, writes, log>>

-----------------------------------------------------------------------------
(* Characters *)

QUOTE == "\""
LF == "\n"
\* A control byte (below 0x20), as a fetched page may hold inside an attribute.
CTL == "\t"

LowerSeq == <<"a", "b", "c", "d", "e", "f", "g", "h", "i", "j", "k", "l", "m",
              "n", "o", "p", "q", "r", "s", "t", "u", "v", "w", "x", "y", "z">>
UpperSeq == <<"A", "B", "C", "D", "E", "F", "G", "H", "I", "J", "K", "L", "M",
              "N", "O", "P", "Q", "R", "S", "T", "U", "V", "W", "X", "Y", "Z">>
Digits == {"0", "1", "2", "3", "4", "5", "6", "7", "8", "9"}
Range(s) == {s[i] : i \in 1..Len(s)}
LowerChars == Range(LowerSeq)
UpperChars == Range(UpperSeq)

-----------------------------------------------------------------------------
(* The string functions of Go's standard library that main.go calls *)

\* s[from..] (1-based), empty when from is past the end
Drop(s, from) == SubSeq(s, from, Len(s))

HasPrefixAt(s, i, p) ==
    /\ i + Len(p) - 1 <= Len(s)
    /\ \A k \in 1..Len(p) : s[i + k - 1] = p[k]

HasPrefix(s, p) == HasPrefixAt(s, 1, p)

\* strings.Index: the first position where sub starts, 0 if none
Index(s, sub) ==
    LET hits == {i \in 1..Len(s) : HasPrefixAt(s, i, sub)}
    IN  IF hits = {} THEN 0 ELSE CHOOSE i \in hits : \A j \in hits : i <= j

\* strings.LastIndex
LastIndex(s, sub) ==
    LET hits == {i \in 1..Len(s) : HasPrefixAt(s, i, sub)}
    IN  IF hits = {} THEN 0 ELSE CHOOSE i \in hits : \A j \in hits : i >= j

\* strings.Contains
Contains(s, sub) == Len(sub) = 0 \/ Index(s, sub) # 0

ToLowerChar(c) ==
    IF c \in UpperChars
    THEN LowerSeq[CHOOSE i \in 1..Len(UpperSeq) : UpperSeq[i] = c]
    ELSE c

\* strings.ToLower
ToLower(s) == [i \in 1..Len(s) |-> ToLowerChar(s[i])]

\* filepath.Base: "." for the empty path, trailing separators stripped, the
\* last element kept, "/" for a path of separators only
Base(path) ==
    IF Len(path) = 0 THEN <<".">>
    ELSE
      LET keep == {i \in 1..Len(path) : path[i] # "/"}
      IN  IF keep = {} THEN <<"/">>
          ELSE
            LET last == CHOOSE i \in keep : \A j \in keep : i >= j
                stripped == SubSeq(path, 1, last)
                seps == {i \in 1..last : stripped[i] = "/"}
                from == IF seps = {} THEN 1
                        ELSE 1 + CHOOSE i \in seps : \A j \in seps : i >= j
            IN  SubSeq(stripped, from, last)

\* filepath.Ext: the suffix from the final dot of the final element, or ""
Ext(path) ==
    LET stops == {i \in 1..Len(path) : path[i] = "/" \/ path[i] = "."}
    IN  IF stops = {} THEN <<>>
        ELSE
          LET i == CHOOSE k \in stops : \A j \in stops : k >= j
          IN  IF path[i] = "." THEN Drop(path, i) ELSE <<>>

IsAlnum(c) == c \in LowerChars \/ c \in Digits

\* regexp `[^a-z0-9]`, ReplaceAllString(s, "_")
ReplaceNonAlnum(s) == [i \in 1..Len(s) |-> IF IsAlnum(s[i]) THEN s[i] ELSE "_"]

\* regexp `_+`, ReplaceAllString(s, "_"): every run of underscores becomes one
RECURSIVE CollapseUnderscores(_)
CollapseUnderscores(s) ==
    IF Len(s) = 0 THEN <<>>
    ELSE IF s[1] = "_" /\ Len(s) > 1 /\ s[2] = "_"
         THEN CollapseUnderscores(Tail(s))
         ELSE <<s[1]>> \o CollapseUnderscores(Tail(s))

\* A trim of the leading underscores only
TrimLeftOnly(s) ==
    LET keep == {i \in 1..Len(s) : s[i] # "_"}
    IN  IF keep = {} THEN <<>>
        ELSE Drop(s, CHOOSE i \in keep : \A j \in keep : i <= j)

\* strings.Trim(s, "_")
Trim(s) ==
    LET keep == {i \in 1..Len(s) : s[i] # "_"}
    IN  IF keep = {} THEN <<>>
        ELSE SubSeq(s, CHOOSE i \in keep : \A j \in keep : i <= j,
                       CHOOSE i \in keep : \A j \in keep : i >= j)

\* path with its trailing separators removed (filepath.Clean of a plain
\* directory name)
RECURSIVE StripSeparators(_)
StripSeparators(path) ==
    IF Len(path) > 1 /\ path[Len(path)] = "/"
    THEN StripSeparators(SubSeq(path, 1, Len(path) - 1))
    ELSE path

\* strings.ReplaceAll(s, old, ""): one left-to-right pass over the
\* non-overlapping occurrences of old; what the removal joins is not rescanned
RECURSIVE ReplaceAllWithEmpty(_, _)
ReplaceAllWithEmpty(s, old) ==
    IF Len(s) = 0 THEN <<>>
    ELSE IF HasPrefix(s, old)
         THEN ReplaceAllWithEmpty(Drop(s, Len(old) + 1), old)
         ELSE <<s[1]>> \o ReplaceAllWithEmpty(Tail(s), old)

-----------------------------------------------------------------------------
(* Filename sanitizer *)

DotPdf == <<".", "p", "d", "f">>
UnderscorePdf == <<"_", "p", "d", "f">>

getFilename(path) == Base(path)

removeSubstring(input, toRemove) == ReplaceAllWithEmpty(input, toRemove)

getFileExtension(path) == Ext(path)

invalidSubstrings == <<UnderscorePdf>>

RECURSIVE RemoveEach(_, _)
RemoveEach(s, subs) ==
    IF Len(subs) = 0 THEN s
    ELSE RemoveEach(removeSubstring(s, Head(subs)), Tail(subs))

\* urlToFilename without the loop that removes invalidSubstrings
urlToFilenameNoRemoval(raw) ==
    LET cleaned == Trim(CollapseUnderscores(ReplaceNonAlnum(getFilename(ToLower(raw)))))
    IN  IF getFileExtension(cleaned) # DotPdf THEN cleaned \o DotPdf ELSE cleaned

urlToFilename(raw) ==
    LET lower == getFilename(ToLower(raw))
        replaced == ReplaceNonAlnum(lower)
        trimmed == Trim(CollapseUnderscores(replaced))
        removed == RemoveEach(trimmed, invalidSubstrings)
    IN  IF getFileExtension(removed) # DotPdf THEN removed \o DotPdf ELSE removed


-----------------------------------------------------------------------------
(* Link extractor *)

HrefOpen == <<"h", "r", "e", "f", "=", QUOTE>>

\* The lengths n that `[^"]+` may take at position start of s so that the rest
\* of the pattern, `\.pdf"`, matches right after it
CaptureRuns(s, start) ==
    {n \in 1..Len(s) :
        /\ start + n + Len(DotPdf) <= Len(s)
        /\ \A k \in start..(start + n - 1) : s[k] # QUOTE
        /\ HasPrefixAt(s, start + n, DotPdf)
        /\ s[start + n + Len(DotPdf)] = QUOTE}

\* regexPattern without its closing quote, `href="([^"]+\.pdf)`
regexPatternUnclosed(s, i) ==
    IF ~HasPrefixAt(s, i, HrefOpen) THEN 0
    ELSE LET start == i + Len(HrefOpen)
             runs == {n \in 1..Len(s) :
                         /\ start + n + Len(DotPdf) - 1 <= Len(s)
                         /\ \A k \in start..(start + n - 1) : s[k] # QUOTE
                         /\ HasPrefixAt(s, start + n, DotPdf)}
         IN  IF runs = {} THEN 0 ELSE CHOOSE n \in runs : \A m \in runs : n >= m

\* regexPattern, `href="([^"]+\.pdf)"`, tried at position i of s: the length
\* of what `[^"]+` takes (it is greedy: the longest run that lets the rest
\* match), or 0 when the pattern does not match at i
regexPattern(s, i) ==
    IF ~HasPrefixAt(s, i, HrefOpen) THEN 0
    ELSE LET runs == CaptureRuns(s, i + Len(HrefOpen))
         IN  IF runs = {} THEN 0 ELSE CHOOSE n \in runs : \A m \in runs : n >= m

\* FindAllStringSubmatch(s, -1), group 1 of each match: the leftmost match
\* from position i on, then the search resumes after that match
RECURSIVE FindAllFrom(_, _)
FindAllFrom(s, i) ==
    IF i > Len(s) THEN <<>>
    ELSE LET n == regexPattern(s, i)
             start == i + Len(HrefOpen)
             stop == start + n + Len(DotPdf) - 1
         IN  IF n = 0 THEN FindAllFrom(s, i + 1)
             ELSE <<SubSeq(s, start, stop)>> \o FindAllFrom(s, stop + 2)

extractPDFUrls(html) == FindAllFrom(html, 1)

-----------------------------------------------------------------------------
(* Deduplicator *)

\* The loop of removeDuplicatesFromSlice from element i on, with the map of
\* seen values lower-cased
RECURSIVE DedupLoopFolded(_, _, _, _)
DedupLoopFolded(s, i, check, acc) ==
    IF i > Len(s) THEN acc
    ELSE IF ToLower(s[i]) \notin check
         THEN DedupLoopFolded(s, i + 1, check \cup {ToLower(s[i])}, Append(acc, s[i]))
         ELSE DedupLoopFolded(s, i + 1, check, acc)

\* The loop of removeDuplicatesFromSlice from element i on: check is the set
\* of keys the map holds as true, acc is newReturnSlice so far
RECURSIVE DedupLoop(_, _, _, _)
DedupLoop(s, i, check, acc) ==
    IF i > Len(s) THEN acc
    ELSE IF s[i] \notin check
         THEN DedupLoop(s, i + 1, check \cup {s[i]}, Append(acc, s[i]))
         ELSE DedupLoop(s, i + 1, check, acc)

removeDuplicatesFromSlice(s) == DedupLoop(s, 1, {}, <<>>)

-----------------------------------------------------------------------------
(* net/url, for URLs without userinfo (@), IPv6 literals ([) and percent     *)
(* escapes, which no page of the model holds                                 *)

IsLetter(c) == c \in LowerChars \/ c \in UpperChars

\* url.getScheme: [err, scheme, rest]
getScheme(raw) ==
    LET schemeChar(i) ==
            \/ IsLetter(raw[i])
            \/ (i > 1 /\ (raw[i] \in Digits \/ raw[i] \in {"+", "-", "."}))
        stops == {i \in 1..Len(raw) : ~schemeChar(i)}
    IN  IF stops = {} THEN [err |-> FALSE, scheme |-> <<>>, rest |-> raw]
        ELSE LET k == CHOOSE i \in stops : \A j \in stops : i <= j
             IN  IF raw[k] # ":" THEN [err |-> FALSE, scheme |-> <<>>, rest |-> raw]
                 ELSE IF k = 1 THEN [err |-> TRUE, scheme |-> <<>>, rest |-> <<>>]
                 ELSE [err |-> FALSE, scheme |-> SubSeq(raw, 1, k - 1),
                       rest |-> Drop(raw, k + 1)]

\* strings.Cut(s, sep), the part before sep (all of s when sep is absent)
CutBefore(s, sep) ==
    IF Index(s, sep) = 0 THEN s ELSE SubSeq(s, 1, Index(s, sep) - 1)

\* url.validOptionalPort
validOptionalPort(port) ==
    \/ Len(port) = 0
    \/ (port[1] = ":" /\ \A i \in 2..Len(port) : port[i] \in Digits)

\* url.parseHost: whether the host is refused
parseHostFails(host) ==
    /\ LastIndex(host, <<":">>) # 0
    /\ ~validOptionalPort(Drop(host, LastIndex(host, <<":">>)))

IsCTL(c) == c = CTL \/ c = LF

\* url.parse(rawURL, viaRequest): [err, scheme, host]
parse(raw, viaRequest) ==
    LET failed == [err |-> TRUE, scheme |-> <<>>, host |-> <<>>]
        sch == getScheme(raw)
        rest == CutBefore(sch.rest, <<"?">>)
        scheme == ToLower(sch.scheme)
        rooted == HasPrefix(rest, <<"/">>)
        hasAuthority ==
            /\ scheme # <<>> \/ (~viaRequest /\ ~HasPrefix(rest, <<"/", "/", "/">>))
            /\ HasPrefix(rest, <<"/", "/">>)
        authority == CutBefore(Drop(rest, 3), <<"/">>)
    IN  IF \E i \in 1..Len(raw) : IsCTL(raw[i]) THEN failed
        ELSE IF raw = <<>> /\ viaRequest THEN failed
        ELSE IF raw = <<"*">> THEN [err |-> FALSE, scheme |-> <<>>, host |-> <<>>]
        ELSE IF sch.err THEN failed
        ELSE IF ~rooted /\ scheme # <<>>
             THEN [err |-> FALSE, scheme |-> scheme, host |-> <<>>]
        ELSE IF ~rooted /\ viaRequest THEN failed
        ELSE IF ~rooted /\ Contains(CutBefore(rest, <<"/">>), <<":">>) THEN failed
        ELSE IF hasAuthority
             THEN IF parseHostFails(authority) THEN failed
                  ELSE [err |-> FALSE, scheme |-> scheme, host |-> authority]
        ELSE [err |-> FALSE, scheme |-> scheme, host |-> <<>>]

\* url.Parse: the fragment is cut off first
Parse(raw) == parse(CutBefore(raw, <<"#">>), FALSE)

\* url.ParseRequestURI
ParseRequestURI(raw) == parse(raw, TRUE)

-----------------------------------------------------------------------------
(* Normalizer *)

\* A check that takes every string for a valid URI
isUrlValidAlways(uri) == TRUE

\* isUrlValid (lines 77-80): url.ParseRequestURI returns no error
isUrlValid(uri) == ~ParseRequestURI(uri).err

hasDomain(raw) == ~Parse(raw).err /\ Parse(raw).host # <<>>

BaseOrigin ==
    <<"h", "t", "t", "p", "s", ":", "/", "/", "w", "w", "w", ".", "n", "c", "l",
      "o", "n", "l", "i", "n", "e", ".", "c", "o", "m">>

\* main, lines 515-518: the URL the loop goes on with
finalURLOf(urls) == IF ~hasDomain(urls) THEN BaseOrigin \o urls ELSE urls

-----------------------------------------------------------------------------
(* The output directory and the download engine *)

Absent == [kind |-> "absent", data |-> <<>>]
Directory == [kind |-> "dir", data |-> <<>>]
File(data) == [kind |-> "file", data |-> data]

\* os.Stat on path p of the file system dir
Stat(dir, p) == IF p \in DOMAIN dir THEN dir[p] ELSE Absent

\* dir with entry e at path p
Put(dir, p, e) == [q \in DOMAIN dir \cup {p} |-> IF q = p THEN e ELSE dir[q]]

\* fileExists with the negation of IsDir left out
fileExistsInverted(dir, filename) == Stat(dir, filename).kind = "dir"

fileExists(dir, filename) ==
    LET info == Stat(dir, filename)
    IN  IF info.kind = "absent" THEN FALSE ELSE info.kind # "dir"

outputDir == <<"P", "D", "F", "s", "/">>

\* filepath.Join(outputDir, filename) for a filename without separators:
\* the directory, cleaned of its trailing separator, a separator, the name
Join(dir, name) == StripSeparators(dir) \o <<"/">> \o name

\* any 2xx status taken for success
statusOK2xx(status) == status \in 200..299

\* line 167: resp.StatusCode != http.StatusOK
statusOK(status) == status = 200

OctetStream ==
    <<"b", "i", "n", "a", "r", "y", "/", "o", "c", "t", "e", "t", "-", "s", "t",
      "r", "e", "a", "m">>
ApplicationPdf ==
    <<"a", "p", "p", "l", "i", "c", "a", "t", "i", "o", "n", "/", "p", "d", "f">>

\* downloadPDF without its content type check
acceptedContentTypeUnchecked(contentType) == TRUE

\* line 173: the content types that are not refused
acceptedContentType(contentType) ==
    Contains(contentType, OctetStream) \/ Contains(contentType, ApplicationPdf)

\* downloadPDF without its check of the number of bytes read
emptyBodyNever(written) == FALSE

\* line 184: written == 0
emptyBody(written) == written = 0

\* client.Get(finalURL) fails before any connection when the URL does not
\* parse, its scheme is not http or https, or it has no host
getRefuses(finalURL) ==
    LET u == Parse(finalURL)
    IN  \/ u.err
        \/ u.scheme \notin {<<"h", "t", "t", "p">>, <<"h", "t", "t", "p", "s">>}
        \/ u.host = <<>>

\* downloadPDF(finalURL, dirName) on the file system dir, env being what the
\* network and the file system answer:
\*   getErr      the request fails (connection error, timeout)
\*   status, contentType, body   the response
\*   readErr     reading the body fails
\*   createErr   os.Create fails
\*   wrote       the bytes WriteTo writes; fewer than the body has: it fails
\* Result: ret, the file system after, gets (requests issued), created (the
\* paths os.Create made) and the branch taken.
downloadPDF(finalURL, dirName, dir, env) ==
    LET filename == ToLower(urlToFilename(finalURL))
        filePath == Join(dirName, filename)
        out(ret, after, gets, created, branch) ==
            [ret |-> ret, fs |-> after, gets |-> gets, created |-> created,
             branch |-> branch, filePath |-> filePath]
        written == Len(env.body)
        wrote == IF env.wrote < written THEN env.wrote ELSE written
    IN  IF fileExists(dir, filePath) THEN out(FALSE, dir, 0, <<>>, "exists")
        ELSE IF getRefuses(finalURL) \/ env.getErr
             THEN out(FALSE, dir, 1, <<>>, "getErr")
        ELSE IF ~statusOK(env.status) THEN out(FALSE, dir, 1, <<>>, "status")
        ELSE IF ~acceptedContentType(env.contentType)
             THEN out(FALSE, dir, 1, <<>>, "contentType")
        ELSE IF env.readErr THEN out(FALSE, dir, 1, <<>>, "readErr")
        ELSE IF emptyBody(written) THEN out(FALSE, dir, 1, <<>>, "empty")
        ELSE IF env.createErr \/ Stat(dir, filePath).kind = "dir"
             THEN out(FALSE, dir, 1, <<>>, "createErr")
        ELSE IF wrote < written
             THEN out(FALSE, Put(dir, filePath, File(SubSeq(env.body, 1, wrote))),
                      1, <<filePath>>, "writeErr")
        ELSE out(TRUE, Put(dir, filePath, File(env.body)), 1, <<filePath>>, "ok")

-----------------------------------------------------------------------------
(* Inputs of the functions: strings built from a few fragments *)

RECURSIVE Flatten(_)
Flatten(ss) == IF Len(ss) = 0 THEN <<>> ELSE Head(ss) \o Flatten(Tail(ss))

SeqsUpTo(S, n) == UNION {[1..k -> S] : k \in 0..n}

\* The longest input of urlToFilename, in fragments
MaxNameFrags == 4

NameFrags ==
    { <<"a">>, <<"/">>, <<".">>, <<"P">>, <<"_", "p">>, <<"d", "f">>,
      <<"p", "d", "f">>, UnderscorePdf }

NameInputs == {Flatten(ss) : ss \in SeqsUpTo(NameFrags, MaxNameFrags)}

-----------------------------------------------------------------------------
(* Values of the variables a specification does not use *)

SanitizerIdle == rawURL = <<>> /\ safe = <<>> /\ safe2 = <<>>
ExtractorIdle == htmlContent = <<>> /\ pdfURLs = <<>>
DedupIdle == slice = <<>> /\ newReturnSlice = <<>> /\ newReturnSlice2 = <<>>
MainIdle ==
    /\ seedIdx = 0 /\ localFile = <<>> /\ extractedPDFURLs = <<>> /\ urlIdx = 0
    /\ log = <<>>
DownloadIdle ==
    /\ fs = <<>> /\ call = <<>> /\ fetchCalls = 0 /\ writes = <<>>

sanitizerVars == <<rawURL, safe, safe2>>
extractorVars == <<htmlContent, pdfURLs>>
dedupVars == <<slice, newReturnSlice, newReturnSlice2>>
mainVars == <<seedIdx, localFile, extractedPDFURLs, urlIdx, log>>
downloadVars == <<fs, call, fetchCalls, writes>>

-----------------------------------------------------------------------------
(* urlToFilename, applied once and then to its own result *)

SanitizerInit ==
    /\ pc = "sanitize"
    /\ rawURL \in NameInputs
    /\ safe = <<>> /\ safe2 = <<>>
    /\ ExtractorIdle /\ DedupIdle /\ MainIdle /\ DownloadIdle

Sanitize ==
    /\ pc = "sanitize"
    /\ safe' = urlToFilename(rawURL)
    /\ pc' = "sanitized"
    /\ UNCHANGED <<rawURL, safe2, extractorVars, dedupVars, mainVars, downloadVars>>

Resanitize ==
    /\ pc = "sanitized"
    /\ safe2' = urlToFilename(safe)
    /\ pc' = "resanitized"
    /\ UNCHANGED <<rawURL, safe, extractorVars, dedupVars, mainVars, downloadVars>>

SanitizerNext == Sanitize \/ Resanitize

SanitizerSpec == SanitizerInit /\ [][SanitizerNext]_vars

\* The part of a sanitized name before its last four characters
Stem(name) == SubSeq(name, 1, Len(name) - Len(DotPdf))

\* C6 as stated: urlToFilename(urlToFilename(x)) = urlToFilename(x) for
\* every input x.
C6_Idempotent == pc = "resanitized" => safe2 = safe

\* C6 as amended: urlToFilename(urlToFilename(x)) = urlToFilename(x) exactly
\* when the part of urlToFilename(x) before .pdf is not empty and holds no
\* _pdf; for the other inputs the second application changes the name.
C6_IdempotentIffCleanStem ==
    pc = "resanitized" =>
        (safe2 = safe <=> (Len(Stem(safe)) > 0 /\ ~Contains(Stem(safe), UnderscorePdf)))

\* A name whose _pdf was removed and that the second application keeps
C6_Witness ==
    /\ pc = "resanitized"
    /\ safe2 = safe
    /\ Contains(ReplaceNonAlnum(ToLower(rawURL)), UnderscorePdf)
    /\ Contains(rawURL, <<"/">>)


-----------------------------------------------------------------------------
(* extractPDFUrls on its own *)

\* The longest input of extractPDFUrls, in fragments
MaxHtmlFrags == 4

HtmlFrags ==
    { HrefOpen, DotPdf, <<QUOTE>>, <<"a">>,
      <<"<", "a", " ", "h", "r", "e", "f", "=", QUOTE, "/", "B", ".", "p", "d", "f", QUOTE, ">">>,
      <<"h", "r", "e", "f", "=", QUOTE, "a", ".", "p", "d", "f", QUOTE>> }

HtmlInputs == {Flatten(ss) : ss \in SeqsUpTo(HtmlFrags, MaxHtmlFrags)}

ExtractorInit ==
    /\ pc = "extract"
    /\ htmlContent \in HtmlInputs
    /\ pdfURLs = <<>>
    /\ SanitizerIdle /\ DedupIdle /\ MainIdle /\ DownloadIdle

Extract ==
    /\ pc = "extract"
    /\ pdfURLs' = extractPDFUrls(htmlContent)
    /\ pc' = "extracted"
    /\ UNCHANGED <<htmlContent, sanitizerVars, dedupVars, mainVars, downloadVars>>

ExtractorNext == Extract

ExtractorSpec == ExtractorInit /\ [][ExtractorNext]_vars

\* s holds, from position i on, href=" then a value then a quote, where the
\* value (s[i+6..j-1]) has no quote and is some character(s) followed by .pdf
IsHrefAt(s, i, j) ==
    /\ HasPrefixAt(s, i, HrefOpen)
    /\ j > i + Len(HrefOpen) + Len(DotPdf)
    /\ j <= Len(s)
    /\ s[j] = QUOTE
    /\ \A k \in (i + Len(HrefOpen))..(j - 1) : s[k] # QUOTE
    /\ HasPrefixAt(s, j - Len(DotPdf), DotPdf)

HrefStarts(s) == {i \in 1..Len(s) : \E j \in 1..Len(s) : IsHrefAt(s, i, j)}

HrefValue(s, i) ==
    LET j == CHOOSE k \in 1..Len(s) : IsHrefAt(s, i, k)
    IN  SubSeq(s, i + Len(HrefOpen), j - 1)

\* The members of a set of numbers, ascending
RECURSIVE Ascending(_)
Ascending(S) ==
    IF S = {} THEN <<>>
    ELSE LET least == CHOOSE i \in S : \A j \in S : i <= j
         IN  <<least>> \o Ascending(S \ {least})

\* C7: extractPDFUrls returns, in order of appearance, the value of every
\* href="<one or more characters, none a quote, ending in .pdf>" of the text,
\* character for character, and nothing else; a text with no such attribute
\* (the empty text too) gives the empty sequence.
C7_ExtractsEveryHref ==
    pc = "extracted" =>
        LET starts == Ascending(HrefStarts(htmlContent))
        IN  /\ Len(pdfURLs) = Len(starts)
            /\ \A k \in 1..Len(starts) : pdfURLs[k] = HrefValue(htmlContent, starts[k])
            /\ (HrefStarts(htmlContent) = {} => pdfURLs = <<>>)

\* Two links extracted in the order they appear, the first with a capital
\* letter kept as written
C7_Witness ==
    /\ pc = "extracted"
    /\ Len(pdfURLs) = 2
    /\ pdfURLs[1] = <<"/", "B", ".", "p", "d", "f">>
    /\ pdfURLs[2] = <<"a", ".", "p", "d", "f">>


-----------------------------------------------------------------------------
(* removeDuplicatesFromSlice on its own *)

\* The longest input of removeDuplicatesFromSlice
MaxSlice == 4

SliceElems ==
    { <<"/", "a", ".", "p", "d", "f">>, <<"/", "A", ".", "p", "d", "f">>,
      <<"/", "b", ".", "p", "d", "f">> }

DedupInit ==
    /\ pc = "dedup"
    /\ slice \in SeqsUpTo(SliceElems, MaxSlice)
    /\ newReturnSlice = <<>> /\ newReturnSlice2 = <<>>
    /\ SanitizerIdle /\ ExtractorIdle /\ MainIdle /\ DownloadIdle

Dedup ==
    /\ pc = "dedup"
    /\ newReturnSlice' = removeDuplicatesFromSlice(slice)
    /\ pc' = "deduped"
    /\ UNCHANGED <<slice, newReturnSlice2, sanitizerVars, extractorVars, mainVars,
                   downloadVars>>

Rededup ==
    /\ pc = "deduped"
    /\ newReturnSlice2' = removeDuplicatesFromSlice(newReturnSlice)
    /\ pc' = "rededuped"
    /\ UNCHANGED <<slice, newReturnSlice, sanitizerVars, extractorVars, mainVars,
                   downloadVars>>

DedupNext == Dedup \/ Rededup

DedupSpec == DedupInit /\ [][DedupNext]_vars

\* The positions of s that hold a string no earlier position holds
FirstPositions(s) == {i \in 1..Len(s) : \A j \in 1..(i - 1) : s[j] # s[i]}

\* C8: the result of removeDuplicatesFromSlice is the input restricted to the
\* first occurrence of each string, in the input's order, strings that differ
\* only in case being different strings; applied to its own result it returns
\* that result.
C8_FirstOccurrences ==
    /\ pc \in {"deduped", "rededuped"} =>
          LET firsts == Ascending(FirstPositions(slice))
          IN  /\ Len(newReturnSlice) = Len(firsts)
              /\ \A k \in 1..Len(firsts) : newReturnSlice[k] = slice[firsts[k]]
    /\ pc = "rededuped" => newReturnSlice2 = newReturnSlice

\* A repeated string dropped while its capitalised variant is kept
C8_Witness ==
    /\ pc = "rededuped"
    /\ Len(slice) = 4
    /\ Len(newReturnSlice) = 3
    /\ newReturnSlice[1] = <<"/", "A", ".", "p", "d", "f">>
    /\ newReturnSlice[2] = <<"/", "a", ".", "p", "d", "f">>


-----------------------------------------------------------------------------
(* downloadPDF on its own: one call, on any of a few URLs and directories *)

TextHtml == <<"t", "e", "x", "t", "/", "h", "t", "m", "l">>
PdfWithCharset ==
    <<"a", "p", "p", "l", "i", "c", "a", "t", "i", "o", "n", "/", "p", "d", "f",
      ";", " ", "c", "h", "a", "r", "s", "e", "t", "=", "u", "t", "f", "-", "8">>

HtmlNamingPdf ==
    <<"t", "e", "x", "t", "/", "h", "t", "m", "l", ";", " ", "x", "=", "a", "p",
      "p", "l", "i", "c", "a", "t", "i", "o", "n", "/", "p", "d", "f">>

\* The Content-Type headers a response may carry (<<>>: none)
ContentTypes ==
    {ApplicationPdf, OctetStream, TextHtml, PdfWithCharset, HtmlNamingPdf, <<>>}
Statuses == {200, 203, 404}
Bodies == {<<>>, <<1, 2>>}

Envs ==
    [getErr : BOOLEAN, status : Statuses, contentType : ContentTypes,
     body : Bodies, readErr : BOOLEAN, createErr : BOOLEAN, wrote : 0..2]

NoEnv == [getErr |-> FALSE, status |-> 0, contentType |-> <<>>, body |-> <<>>,
          readErr |-> FALSE, createErr |-> FALSE, wrote |-> 0]

DocA ==
    <<"h", "t", "t", "p", "s", ":", "/", "/", "w", "w", "w", ".", "n", "c", "l",
      "o", "n", "l", "i", "n", "e", ".", "c", "o", "m", "/", "a", "/", "d", "o",
      "c", ".", "p", "d", "f">>
DocB ==
    <<"h", "t", "t", "p", "s", ":", "/", "/", "w", "w", "w", ".", "n", "c", "l",
      "o", "n", "l", "i", "n", "e", ".", "c", "o", "m", "/", "b", "/", "d", "o",
      "c", ".", "p", "d", "f">>
DocUpper ==
    <<"h", "t", "t", "p", "s", ":", "/", "/", "h", ".", "i", "o", "/", "A", "_",
      "p", "d", "f", ".", "P", "D", "F">>
DocNoScheme == <<"/", "/", "h", ".", "i", "o", "/", "x", ".", "p", "d", "f">>

DownloadURLs == {DocA, DocB, DocUpper, DocNoScheme}

TargetPath(url) == Join(outputDir, ToLower(urlToFilename(url)))

\* What a directory may hold at a path before the run
OldEntries == {Absent, Directory, File(<<9>>), File(<<>>)}

\* The record of a downloadPDF call: the link it comes from, its arguments,
\* the directory before, what the environment answered, and the result
CallRecord(urls, finalURL, dir, env, res) ==
    [urls |-> urls, finalURL |-> finalURL, before |-> dir,
     env |-> IF res.branch = "exists" THEN NoEnv ELSE env,
     ret |-> res.ret, branch |-> res.branch, filePath |-> res.filePath,
     gets |-> res.gets, created |-> res.created]

DownloadInit ==
    /\ pc = "call"
    /\ \E u \in DownloadURLs, e \in OldEntries :
          /\ call = [finalURL |-> u]
          /\ fs = IF e = Absent THEN <<>> ELSE Put(<<>>, TargetPath(u), e)
    /\ fetchCalls = 0
    /\ writes = <<>>
    /\ SanitizerIdle /\ ExtractorIdle /\ DedupIdle /\ MainIdle

Download ==
    /\ pc = "call"
    /\ \E env \in Envs :
          LET res == downloadPDF(call.finalURL, outputDir, fs, env)
          IN  /\ call' = CallRecord(call.finalURL, call.finalURL, fs, env, res)
              /\ fs' = res.fs
              /\ fetchCalls' = fetchCalls + res.gets
              /\ writes' = writes \o res.created
    /\ pc' = "returned"
    /\ UNCHANGED <<sanitizerVars, extractorVars, dedupVars, mainVars>>

DownloadNext == Download

DownloadSpec == DownloadInit /\ [][DownloadNext]_vars

\* The call got a response (the file was not there and the request succeeded)
GotResponse == pc = "returned" /\ call.branch \notin {"exists", "getErr"}

\* C1: a call that finds a regular file at its target path returns false,
\* issues no request (the count of requests stays 0) and leaves every file of
\* the directory as it was, creating none.
C1_SkipsExistingFile ==
    (pc = "returned" /\ Stat(call.before, TargetPath(call.finalURL)).kind = "file") =>
        /\ call.ret = FALSE
        /\ fetchCalls = 0
        /\ fs = call.before
        /\ writes = <<>>

C1_Witness ==
    /\ pc = "returned"
    /\ Stat(call.before, TargetPath(call.finalURL)) = File(<<>>)
    /\ call.finalURL = DocUpper
    /\ call.ret = FALSE

\* C2 as stated: a 200 response whose Content-Type is neither application/pdf
\* nor binary/octet-stream is refused: the call returns false and makes no
\* file.
C2_RejectsOtherContentTypes ==
    (GotResponse /\ call.env.status = 200
        /\ call.env.contentType \notin {ApplicationPdf, OctetStream}) =>
        (call.ret = FALSE /\ fs = call.before /\ writes = <<>>)

\* C2 as amended: a 200 response whose Content-Type contains neither
\* application/pdf nor binary/octet-stream as a substring (text/html, or no
\* Content-Type at all) is refused: the call returns false and makes no
\* file. A value that is not one of the two but contains one of them, such as
\* application/pdf; charset=utf-8 or text/html; x=application/pdf, is
\* accepted.
C2_RejectsContentTypesWithoutPdf ==
    (GotResponse /\ call.env.status = 200
        /\ ~Contains(call.env.contentType, ApplicationPdf)
        /\ ~Contains(call.env.contentType, OctetStream)) =>
        (call.ret = FALSE /\ fs = call.before /\ writes = <<>>)

\* text/html with a body that would otherwise have been saved
C2_Witness ==
    /\ GotResponse
    /\ call.env.status = 200
    /\ call.env.contentType = TextHtml
    /\ call.env.body = <<1, 2>>
    /\ ~call.env.readErr /\ ~call.env.createErr /\ call.env.wrote = 2
    /\ Stat(call.before, call.filePath) = Absent
    /\ call.ret = FALSE

\* C3: a 200 response of an accepted content type with a body of zero bytes
\* is refused: the call returns false, the directory is as before, and no
\* file (no empty one either) is at the target path.
C3_NoEmptyFile ==
    (GotResponse /\ call.env.status = 200
        /\ (Contains(call.env.contentType, ApplicationPdf)
            \/ Contains(call.env.contentType, OctetStream))
        /\ ~call.env.readErr
        /\ call.env.body = <<>>) =>
        /\ call.ret = FALSE
        /\ fs = call.before
        /\ Stat(fs, call.filePath).kind # "file"
        /\ writes = <<>>

C3_Witness ==
    /\ GotResponse
    /\ call.env.status = 200
    /\ call.env.contentType = OctetStream
    /\ call.env.body = <<>>
    /\ ~call.env.readErr /\ ~call.env.createErr
    /\ call.branch = "empty"
    /\ call.ret = FALSE

\* C4: a response whose status is not 200 is refused, whatever its content
\* type and body: the call returns false and the directory is as before.
C4_RejectsNon200 ==
    (GotResponse /\ call.env.status # 200) =>
        (call.ret = FALSE /\ fs = call.before /\ writes = <<>>)

\* A 203 response that carries a PDF
C4_Witness ==
    /\ GotResponse
    /\ call.env.status = 203
    /\ call.env.contentType = ApplicationPdf
    /\ call.env.body = <<1, 2>>
    /\ ~call.env.readErr /\ ~call.env.createErr /\ call.env.wrote = 2
    /\ call.ret = FALSE


-----------------------------------------------------------------------------
(* main: the page-fetch loop, the extraction, the download loop *)

\* The number of seed URLs of remoteURL the model runs with
NumSeeds == 2

remoteURL == [i \in 1..NumSeeds |-> i]

PageDocs ==
    <<"<", "a", " ", "h", "r", "e", "f", "=", QUOTE, "/", "a", "/", "d", "o", "c",
      ".", "p", "d", "f", QUOTE, ">", "<", "a", " ", "h", "r", "e", "f", "=", QUOTE,
      "/", "b", "/", "d", "o", "c", ".", "p", "d", "f", QUOTE, ">">>
PageAbsolute ==
    <<"<", "a", " ", "h", "r", "e", "f", "=", QUOTE, "h", "t", "t", "p", "s", ":",
      "/", "/", "h", ".", "i", "o", "/", "A", ".", "p", "d", "f", QUOTE, ">", " ",
      "<", "a", " ", "h", "r", "e", "f", "=", QUOTE, "/", "a", "/", "d", "o", "c",
      ".", "p", "d", "f", QUOTE, ">">>
PageOdd ==
    <<"h", "r", "e", "f", "=", QUOTE, "d", "o", "c", "s", "/", "x", ".", "p", "d",
      "f", QUOTE, " ", "h", "r", "e", "f", "=", QUOTE, "/", "c", CTL, "d", ".", "p",
      "d", "f", QUOTE>>

\* PageDocs as far as it was read when the connection broke
PageDocsCut == SubSeq(PageDocs, 1, 30)

\* What http.Get and io.ReadAll may give for a seed page that answers: a whole
\* body, or the part of a body read before a read error
PageAnswers ==
    {[body |-> b, err |-> "none"] : b \in {<<>>, PageDocs, PageAbsolute, PageOdd}}
        \cup {[body |-> PageDocsCut, err |-> "read"]}

\* What the network answers to a download of the download loop: one answer
\* for each way downloadPDF can end
GetFailed == [NoEnv EXCEPT !.getErr = TRUE]
Response(status, contentType, body) ==
    [NoEnv EXCEPT !.status = status, !.contentType = contentType, !.body = body,
                  !.wrote = Len(body)]
MainEnvs ==
    { GetFailed,
      Response(404, TextHtml, <<1, 2>>),
      Response(200, TextHtml, <<1, 2>>),
      [Response(200, ApplicationPdf, <<1, 2>>) EXCEPT !.readErr = TRUE],
      Response(200, ApplicationPdf, <<>>),
      [Response(200, ApplicationPdf, <<1, 2>>) EXCEPT !.createErr = TRUE],
      [Response(200, ApplicationPdf, <<1, 2>>) EXCEPT !.wrote = 1],
      Response(200, OctetStream, <<1, 2>>) }

NoCall ==
    [urls |-> <<>>, finalURL |-> <<>>, before |-> <<>>, env |-> NoEnv, ret |-> FALSE,
     branch |-> "none", filePath |-> <<>>, gets |-> 0, created |-> <<>>]

DocPath == <<"P", "D", "F", "s", "/", "d", "o", "c", ".", "p", "d", "f">>

\* main starts with nclonline.html removed and with the output directory as
\* earlier runs left it
Init ==
    /\ pc = "fetch"
    /\ seedIdx = 1
    /\ localFile = <<>>
    /\ extractedPDFURLs = <<>>
    /\ urlIdx = 0
    /\ log = <<>>
    /\ fs \in {<<>>, Put(<<>>, DocPath, File(<<9>>))}
    /\ call = NoCall
    /\ fetchCalls = 0
    /\ writes = <<>>
    /\ SanitizerIdle /\ ExtractorIdle /\ DedupIdle

\* appendAndWriteToFile(localFile, content)
appendAndWriteToFile(file, content) == file \o content \o <<LF>>

\* One iteration of the page-fetch loop, http.Get answering with a response:
\* getDataFromURL returns the body read (all of it, or what was read before a
\* read error), which is appended to nclonline.html
FetchPage ==
    /\ pc = "fetch"
    /\ \E answer \in PageAnswers :
          /\ localFile' = appendAndWriteToFile(localFile, answer.body)
          /\ log' = Append(log, [seed |-> remoteURL[seedIdx], err |-> answer.err])
    /\ seedIdx' = seedIdx + 1
    /\ pc' = IF seedIdx = NumSeeds THEN "extract" ELSE "fetch"
    /\ UNCHANGED <<extractedPDFURLs, urlIdx, downloadVars, sanitizerVars,
                   extractorVars, dedupVars>>

\* One iteration of the page-fetch loop, http.Get failing to connect (no
\* such host, connection refused, timeout): it returns a nil response and an
\* error, the error is logged, and response.Body (line 213) dereferences
\* nil: the run ends in a panic
FetchPageGetError ==
    /\ pc = "fetch"
    /\ log' = Append(log, [seed |-> remoteURL[seedIdx], err |-> "get"])
    /\ pc' = "panicked"
    /\ UNCHANGED <<seedIdx, localFile, extractedPDFURLs, urlIdx, downloadVars,
                   sanitizerVars, extractorVars, dedupVars>>

\* Lines 508-512: read nclonline.html, extract the links, remove duplicates
ExtractLinks ==
    /\ pc = "extract"
    /\ extractedPDFURLs' = removeDuplicatesFromSlice(extractPDFUrls(localFile))
    /\ urlIdx' = 1
    /\ pc' = "download"
    /\ UNCHANGED <<seedIdx, localFile, log, downloadVars, sanitizerVars,
                   extractorVars, dedupVars>>

\* A loop that stays on the link it has just handled
rangeStay(i) == i

\* for _, urls := range extractedPDFURLs (line 514): the loop moves on to the
\* next link; what downloadPDF returned is discarded
rangeNext(i) == i + 1

\* One iteration of the download loop (lines 514-522)
DownloadLink ==
    /\ pc = "download"
    /\ urlIdx <= Len(extractedPDFURLs)
    /\ LET urls == extractedPDFURLs[urlIdx]
           finalURL == finalURLOf(urls)
       IN  IF isUrlValid(finalURL)
              THEN \E env \in MainEnvs :
                      LET res == downloadPDF(finalURL, outputDir, fs, env)
                      IN  /\ call' = CallRecord(urls, finalURL, fs, env, res)
                          /\ fs' = res.fs
                          /\ fetchCalls' = fetchCalls + res.gets
                          /\ writes' = writes \o res.created
              ELSE /\ call' = [NoCall EXCEPT !.urls = urls, !.finalURL = finalURL,
                                              !.branch = "dropped"]
                   /\ UNCHANGED <<fs, fetchCalls, writes>>
    /\ urlIdx' = rangeNext(urlIdx)
    /\ UNCHANGED <<pc, seedIdx, localFile, extractedPDFURLs, log, sanitizerVars,
                   extractorVars, dedupVars>>

\* The download loop is over: main returns
Finish ==
    /\ pc = "download"
    /\ urlIdx > Len(extractedPDFURLs)
    /\ pc' = "done"
    /\ UNCHANGED <<seedIdx, localFile, extractedPDFURLs, urlIdx, log, downloadVars,
                   sanitizerVars, extractorVars, dedupVars>>

Next == FetchPage \/ FetchPageGetError \/ ExtractLinks \/ DownloadLink \/ Finish

Spec == Init /\ [][Next]_vars

\* The step of the download loop as the loop variable sees it: while links
\* are left, DownloadLink moves urlIdx on
DownloadLinkStep ==
    /\ pc = "download"
    /\ urlIdx <= Len(extractedPDFURLs)
    /\ urlIdx' = rangeNext(urlIdx)

\* The download loop runs in one sequential thread and each of its iterations
\* ends (a request is bounded by the client's timeout of 15 minutes, line
\* 158), so while links are left the next iteration is taken, and when none
\* is left main returns
FairSpec == Spec /\ WF_urlIdx(DownloadLinkStep) /\ WF_pc(Finish)


\* How many times path p occurs in the sequence ps
Count(ps, p) == Cardinality({i \in 1..Len(ps) : ps[i] = p})

\* The links of the download loop handled so far
Handled == IF pc \in {"download", "done"} THEN urlIdx - 1 ELSE 0

\* The links among the first n that were handed to downloadPDF
Downloaded(n) == {i \in 1..n : isUrlValid(finalURLOf(extractedPDFURLs[i]))}

\* Two different handled links with the same target file, absent at the start
Collide(i, j) ==
    /\ i < j
    /\ extractedPDFURLs[i] # extractedPDFURLs[j]
    /\ TargetPath(finalURLOf(extractedPDFURLs[i])) = TargetPath(finalURLOf(extractedPDFURLs[j]))

\* No file was at path p when the run began: files are never removed, so
\* there is none now or the run has created it
InitiallyAbsent(p) == p \notin DOMAIN fs \/ Count(writes, p) > 0

\* The paths os.Create had made when the last call began
WritesBefore == SubSeq(writes, 1, Len(writes) - Len(call.created))

\* C5 as stated: when two different links map to the same target file and
\* that file is absent at the start, the link processed first creates it, the
\* later one is skipped because the file exists, and at the end of the run
\* the file has been written exactly once.
C5_FirstCreatesLaterSkipped ==
    \A i, j \in Downloaded(Handled) :
        (Collide(i, j) /\ j = Handled /\ InitiallyAbsent(call.filePath)) =>
            /\ call.branch = "exists"
            /\ Count(writes, call.filePath) = 1

\* C5 as amended: in any run no target file is created more than once, and
\* once a link has created the file every later link with the same target file
\* is skipped because the file exists, with no request issued. The link
\* processed first creates the file only if its own download gets as far as
\* creating it; when it fails earlier a later link with the same target file
\* is downloaded, and when all fail no file is written.
C5_AtMostOneWritePerFile ==
    /\ \A k \in 1..Len(writes) : Count(writes, writes[k]) = 1
    /\ (call.branch \notin {"none", "dropped"}
            /\ Count(WritesBefore, call.filePath) > 0) =>
          (call.branch = "exists" /\ call.gets = 0 /\ call.created = <<>>
              /\ fs = call.before)

\* /a/doc.pdf has created PDFs/doc.pdf and /b/doc.pdf was skipped
C5_Witness ==
    /\ pc = "done"
    /\ writes = <<DocPath>>
    /\ \E i, j \in Downloaded(Handled) : Collide(i, j) /\ j = Handled
    /\ call.filePath = DocPath
    /\ call.urls = <<"/", "b", "/", "d", "o", "c", ".", "p", "d", "f">>
    /\ call.branch = "exists"

BaseHost ==
    <<"w", "w", "w", ".", "n", "c", "l", "o", "n", "l", "i", "n", "e", ".", "c",
      "o", "m">>

\* C9: in the download loop a link without a host gets the base origin
\* prepended, and what is then validated and downloaded is an absolute URL on
\* the host www.nclonline.com; a link that has a host is passed on as it is.
C9_NormalizedToBaseHost ==
    call.branch \notin {"none", "dropped"} =>
        IF Parse(call.urls).err \/ Parse(call.urls).host = <<>>
        THEN /\ call.finalURL = BaseOrigin \o call.urls
             /\ Parse(call.finalURL).host = BaseHost
        ELSE call.finalURL = call.urls

\* C10: a failed fetch of a seed page does not end the run: the page-fetch
\* loop goes on to the remaining seeds and the extraction follows.
C10_FetchFailureDoesNotHalt ==
    \A k \in 1..Len(log) : log[k].err # "none" => pc # "panicked"

\* C11: in the download loop a call of downloadPDF that fails, for whatever
\* reason, abandons that link only: the loop moves to the next link of the
\* deduplicated list without handling the failed one again, at most one
\* request having been issued for it, the list is left as it was, and from
\* any point of the download loop the run reaches its end.
C11_FailureAbandonsOnlyThatLink ==
    /\ [][(pc = "download" /\ urlIdx <= Len(extractedPDFURLs)
              /\ call'.branch # "dropped" /\ ~call'.ret) =>
             /\ call'.urls = extractedPDFURLs[urlIdx]
             /\ urlIdx' = urlIdx + 1
             /\ pc' = "download"
             /\ extractedPDFURLs' = extractedPDFURLs
             /\ fetchCalls' <= fetchCalls + 1]_vars
    /\ (pc = "download") ~> (pc = "done")

\* The run has ended after two requests of which only the last, for the last
\* link of the list, created a file: an earlier download had failed
C11_Witness ==
    /\ pc = "done"
    /\ Len(extractedPDFURLs) >= 2
    /\ fetchCalls = 2
    /\ call.urls = extractedPDFURLs[Len(extractedPDFURLs)]
    /\ call.branch = "ok"
    /\ writes = <<call.filePath>>

\* C12: a link that, after the base-origin step, does not parse as a request
\* URI is dropped before any network attempt: downloadPDF is not called for
\* it, no request is issued, no file is created or changed, and the loop goes
\* on with the next link.
C12_InvalidURLDropped ==
    [][(pc = "download" /\ urlIdx <= Len(extractedPDFURLs)
          /\ ParseRequestURI(finalURLOf(extractedPDFURLs[urlIdx])).err) =>
         /\ call'.branch = "dropped"
         /\ call'.urls = extractedPDFURLs[urlIdx]
         /\ call'.gets = 0 /\ call'.created = <<>>
         /\ fetchCalls' = fetchCalls
         /\ writes' = writes
         /\ fs' = fs
         /\ urlIdx' = urlIdx + 1
         /\ pc' = "download"]_vars

\* The link holding a control character has just been dropped, with no
\* request made for it, and links are left for the loop to go on with
C12_Witness ==
    /\ pc = "download"
    /\ call.branch = "dropped"
    /\ Contains(call.urls, <<CTL>>)
    /\ ParseRequestURI(call.finalURL).err
    /\ call.finalURL = BaseOrigin \o call.urls
    /\ urlIdx <= Len(extractedPDFURLs)

\* The name is a stem followed by .pdf, the stem made of characters of
\* [a-z0-9_] only, with no underscore at either end and no two in a row
WellShaped(name) ==
    /\ Len(name) >= Len(DotPdf)
    /\ Drop(name, Len(name) - Len(DotPdf) + 1) = DotPdf
    /\ \A k \in 1..Len(Stem(name)) : IsAlnum(Stem(name)[k]) \/ Stem(name)[k] = "_"
    /\ Len(Stem(name)) > 0 => (Head(Stem(name)) # "_" /\ Stem(name)[Len(Stem(name))] # "_")
    /\ \A k \in 1..(Len(Stem(name)) - 1) : ~(Stem(name)[k] = "_" /\ Stem(name)[k + 1] = "_")

\* The last path segment of the input, as getFilename takes it from the
\* lowercased input, holds no letter and no digit
NoAlnumInLastSegment(raw) ==
    \A k \in 1..Len(getFilename(ToLower(raw))) : ~IsAlnum(getFilename(ToLower(raw))[k])

\* C13: for every input urlToFilename returns a name that ends in .pdf and
\* whose part before that suffix consists of characters of [a-z0-9_] only,
\* with no leading or trailing underscore and no two consecutive underscores;
\* an input whose last path segment holds no alphanumeric character (the empty
\* string included) yields exactly .pdf.
C13_NameShape ==
    /\ pc \in {"sanitized", "resanitized"} =>
          /\ WellShaped(safe)
          /\ NoAlnumInLastSegment(rawURL) => safe = DotPdf
    /\ pc = "resanitized" =>
          /\ WellShaped(safe2)
          /\ NoAlnumInLastSegment(safe) => safe2 = DotPdf

\* An input with a directory part, an upper-case letter and a separator
\* inside its last segment has been sanitized to a name with an underscore
C13_Witness ==
    /\ pc = "sanitized"
    /\ Contains(rawURL, <<"/">>)
    /\ Contains(rawURL, <<"P">>)
    /\ Contains(Stem(safe), <<"_">>)
    /\ Len(safe) < Len(rawURL) + Len(DotPdf)

\* C14: for every input, the name urlToFilename returns holds no _pdf before
\* its final .pdf suffix, also when removing one occurrence joins the text
\* around it into a new one.
C14_NoUnderscorePdfRemains ==
    pc \in {"sanitized", "resanitized"} => ~Contains(Stem(safe), UnderscorePdf)

\* C15: downloadPDF changes the output directory only on success. A call
\* that returns true has created exactly one new file, at
\* dir/urlToFilename(url), holding the complete, non-empty response body; a
\* call that returns false (skip, network error, rejection, or file create or
\* write failure) leaves the directory as it was, with no file at the target
\* path that was not there before the call.
C15_DirectoryChangesOnlyOnSuccess ==
    pc = "returned" =>
        IF call.ret
        THEN /\ call.filePath = Join(outputDir, urlToFilename(call.finalURL))
             /\ Stat(call.before, call.filePath) = Absent
             /\ call.env.body # <<>>
             /\ fs = Put(call.before, call.filePath, File(call.env.body))
             /\ call.created = <<call.filePath>>
        ELSE /\ fs = call.before
             /\ Stat(call.before, call.filePath) = Absent =>
                    Stat(fs, call.filePath) = Absent

=============================================================================
